---- MODULE Spec2Model ----
(***************************************************************************)
(* digital-advisor: the bounded worker pool                                *)
(* (commands/utils/threading.py, threadpool_generator) and the DNS client  *)
(* built on it (commands/utils/dns.py, DNSClient).                         *)
(*                                                                         *)
(* One behaviour is one call of DNSClient.lookup or                        *)
(* DNSClient.reverse_lookup.  Three kinds of thread take steps:            *)
(*   - the consumer, which owns the generator returned by the call and     *)
(*     either asks for the next pair or closes the generator;              *)
(*   - the coordinator, i.e. the consumer's thread while it executes the   *)
(*     body of lookup / threadpool_generator (variable pc is its place);   *)
(*   - the worker threads of the ThreadPoolExecutor, which take work       *)
(*     items from the executor's FIFO queue and run the worker function.   *)
(* The executor, the futures and the socket functions are library code;    *)
(* they are modelled by their documented behaviour.  A generator that the  *)
(* consumer abandons is closed (CPython finalises it as soon as the last   *)
(* reference is dropped), so abandoning is the Close action.               *)
(***************************************************************************)
EXTENDS Naturals, Integers, Sequences, FiniteSets, Bags, TLC

\* ---------------------------------------------------------------- bounds
MaxLen == 3          \* longest input sequence explored
MaxThreads == 2      \* largest num_threads explored

\* ------------------------------------------------------------ input data
None == "None"

\* Input strings.  "localhost" resolves; "unknown.invalid" is a well-formed
\* string that does not resolve; "a..b" has an empty label, which the idna
\* encoding of the socket module rejects; "1.2.3.4\\0" stands for a string
\* with an embedded NUL, which the socket module's argument parsing rejects.
Inputs == {"localhost", "unknown.invalid", "a..b", "1.2.3.4\\0"}

\* Outcome of socket.gethostbyname(hostname): an address, or the exception
\* class raised.
socket_gethostbyname(hostname) ==
    CASE hostname = "localhost"       -> [exc |-> "none", value |-> "127.0.0.1"]
      [] hostname = "unknown.invalid" -> [exc |-> "OSError", value |-> None]
      [] hostname = "a..b"            -> [exc |-> "UnicodeError", value |-> None]
      [] OTHER                        -> [exc |-> "TypeError", value |-> None]

\* Outcome of socket.gethostbyaddr(address): the primary host name, or the
\* exception class raised.
socket_gethostbyaddr(address) ==
    CASE address = "localhost"       -> [exc |-> "none", value |-> "localhost"]
      [] address = "unknown.invalid" -> [exc |-> "OSError", value |-> None]
      [] address = "a..b"            -> [exc |-> "UnicodeError", value |-> None]
      [] OTHER                       -> [exc |-> "TypeError", value |-> None]

\* socket.getfqdn(name): the fully qualified name of a host; it never raises.
socket_getfqdn(name) ==
    IF name = "localhost" THEN "localhost.localdomain" ELSE name

\* What a call of a worker function does: the pair it returns (ret), or the
\* exception that escapes it (exc), and how many debug events it logged.
Returned(pair, ndebug) == [exc |-> "none", ret |-> pair, debug |-> ndebug]
Raised(e) == [exc |-> e, ret |-> <<None, None>>, debug |-> 0]

\* DNSClient._gethostbyname: only OSError is caught.
gethostbyname(hostname) ==
    LET r == socket_gethostbyname(hostname) IN
    IF r.exc = "none" THEN Returned(<<hostname, r.value>>, 1)
    ELSE IF r.exc = "OSError" THEN Returned(<<hostname, None>>, 1)
    ELSE Raised(r.exc)

\* DNSClient._gethostbyaddr: OSError and UnicodeError are caught.
gethostbyaddr(address) ==
    LET r == socket_gethostbyaddr(address) IN
    IF r.exc = "none" THEN Returned(<<address, socket_getfqdn(r.value)>>, 1)
    ELSE IF r.exc \in {"OSError", "UnicodeError"} THEN Returned(<<address, None>>, 1)
    ELSE Raised(r.exc)

\* The worker function that lookup / reverse_lookup hands to the pool.
function(op, arg) ==
    IF op = "lookup" THEN gethostbyname(arg) ELSE gethostbyaddr(arg)

\* ----------------------------------------------------------------- state
VARIABLES
    op,            \* "lookup" or "reverse_lookup": the method called
    num_threads,   \* DNSClient.num_threads
    args,          \* the input sequence (hostnames / addresses)
    cursor,        \* number of items pulled from iter(args)
    pc,            \* place of the coordinator
    executor,      \* [created, shutdown, alive]: pool made?, shut down?, live worker threads
    work_queue,    \* executor's FIFO queue of submitted, unstarted tasks
    fut,           \* one record per submitted task, in submission order
    futures,       \* local 'futures': tasks submitted and not yet reported done
    completed,     \* local 'completed': the batch returned by wait()
    pending,       \* tasks of 'completed' the for loop has not reached yet
    topup,         \* items the running islice may still pull
    yielded,       \* what the consumer has received: <<task, pair>> in order
    num_resolved,  \* lookup's counter
    num_failed,    \* lookup's counter
    log,           \* [debug |-> per-lookup debug events, info |-> summary events]
    exit,          \* why the generator is finishing: "", "exhausted", "closed", "raised"
    exc,           \* exception propagating out of the generator body, or "none"
    error,         \* exception delivered to the consumer, or "none"
    done_order,    \* history, kept while results may still be yielded: the finished
                   \* tasks not yet yielded, in order of completion
    util,          \* the last call of a utility function: its inputs and result
    client         \* a DNSClient with the lookup / reverse_lookup calls made on it

vars == <<op, num_threads, args, cursor, pc, executor, work_queue, fut, futures,
          completed, pending, topup, yielded, num_resolved, num_failed, log,
          exit, exc, error, done_order, util, client>>

\* no DNSClient shared between calls is under observation
NoClient == [num_threads |-> 0, calls |-> <<>>, info |-> <<>>]

\* All sequences over S of length at most n.
SeqsUpTo(S, n) == UNION {[1..k -> S] : k \in 0..n}

\* variant: a longer replenishment buffer
queue_length_x3 == num_threads * 3

queue_length == num_threads * 2

Tasks == DOMAIN fut
Running == {t \in Tasks : fut[t].state = "RUNNING"}
Finished == {t \in Tasks : fut[t].state = "FINISHED"}
YieldedTasks == {yielded[i][1] : i \in DOMAIN yielded}
\* submitted to the executor, result not yet yielded to the consumer
Outstanding == Tasks \ YieldedTasks

\* The inputs of the runs with a consumer that drains: a string that
\* resolves and a malformed one, which makes lookup's worker raise and
\* reverse_lookup's worker return None.
LiveInputs == {"localhost", "a..b"}

Init ==
    /\ op \in {"lookup", "reverse_lookup"}
    /\ num_threads \in 1..MaxThreads
    /\ args \in SeqsUpTo(Inputs, MaxLen)
    /\ cursor = 0
    /\ pc = "new"
    /\ executor = [created |-> FALSE, shutdown |-> FALSE, alive |-> 0]
    /\ work_queue = <<>>
    /\ fut = <<>>
    /\ futures = {}
    /\ completed = {}
    /\ pending = {}
    /\ topup = 0
    /\ yielded = <<>>
    /\ num_resolved = 0
    /\ num_failed = 0
    /\ log = [debug |-> 0, info |-> <<>>]
    /\ exit = ""
    /\ exc = "none"
    /\ error = "none"
    /\ done_order = <<>>
    /\ util = [fn |-> "none"]
    /\ client = NoClient

\* -------------------------------------------------- executor (library)
\* variant: the executor starts a thread per task, whatever max_workers
Submit_spawns(arg) ==
    /\ fut' = Append(fut, [arg |-> arg, state |-> "PENDING", exc |-> "none",
                           ret |-> <<None, None>>, runs |-> 0])
    /\ work_queue' = Append(work_queue, Len(fut) + 1)
    /\ executor' = [executor EXCEPT !.alive = @ + 1]

\* ThreadPoolExecutor.submit(function, arg): a new pending Future, a work
\* item at the tail of the queue, and a new worker thread unless an idle
\* one is free or max_workers threads already exist.
Submit(arg) ==
    LET idle == executor.alive - Cardinality(Running) - Len(work_queue)
        spawn == IF idle <= 0 /\ executor.alive < num_threads THEN 1 ELSE 0
    IN  /\ fut' = Append(fut, [arg |-> arg, state |-> "PENDING", exc |-> "none",
                               ret |-> <<None, None>>, runs |-> 0])
        /\ work_queue' = Append(work_queue, Len(fut) + 1)
        /\ executor' = [executor EXCEPT !.alive = @ + spawn]

\* variant: the input is consumed from its end
PullAndSubmit_reversed ==
    /\ cursor < Len(args)
    /\ cursor' = cursor + 1
    /\ Submit(args[Len(args) - cursor])
    /\ futures' = futures \cup {Len(fut) + 1}
    /\ topup' = topup - 1

\* next(args) followed by executor.submit(function, arg); the new future
\* joins the local set 'futures'.
PullAndSubmit ==
    /\ cursor < Len(args)
    /\ cursor' = cursor + 1
    /\ Submit(args[cursor + 1])
    /\ futures' = futures \cup {Len(fut) + 1}
    /\ topup' = topup - 1

\* A worker thread takes the work item at the head of the queue and calls
\* the worker function on it.
WorkerStart ==
    /\ work_queue # <<>>
    /\ executor.alive - Cardinality(Running) > 0
    /\ fut' = [fut EXCEPT ![Head(work_queue)].state = "RUNNING",
                          ![Head(work_queue)].runs = @ + 1]
    /\ work_queue' = Tail(work_queue)
    /\ UNCHANGED <<util, client, done_order, op, num_threads, args, cursor, pc, executor, futures, completed,
                   pending, topup, yielded, num_resolved, num_failed, log, exit,
                   exc, error>>

\* variant: the finishing worker also removes the future from 'futures'
WorkerFinish_discards ==
    \E t \in Running :
        LET r == function(op, fut[t].arg) IN
        /\ fut' = [fut EXCEPT ![t].state = "FINISHED", ![t].exc = r.exc,
                              ![t].ret = r.ret]
        /\ log' = [log EXCEPT !.debug = @ + r.debug]
        /\ done_order' = IF exit = "" THEN Append(done_order, t) ELSE done_order
        /\ futures' = futures \ {t}
        /\ UNCHANGED <<util, client, op, num_threads, args, cursor, pc, executor, work_queue,
                       completed, pending, topup, yielded, num_resolved,
                       num_failed, exit, exc, error>>

\* The worker function returns or raises; the future becomes FINISHED with
\* the result or the exception.  The function's own debug event is logged.
WorkerFinish ==
    \E t \in Running :
        LET r == function(op, fut[t].arg) IN
        /\ fut' = [fut EXCEPT ![t].state = "FINISHED", ![t].exc = r.exc,
                              ![t].ret = r.ret]
        /\ log' = [log EXCEPT !.debug = @ + r.debug]
        /\ done_order' = IF exit = "" THEN Append(done_order, t) ELSE done_order
        /\ UNCHANGED <<util, client, op, num_threads, args, cursor, pc, executor, work_queue,
                       futures, completed, pending, topup, yielded, num_resolved,
                       num_failed, exit, exc, error>>

\* variant: at shutdown the idle threads exit and leave the queue behind
WorkerExit_abandons ==
    /\ executor.shutdown
    /\ executor.alive - Cardinality(Running) > 0
    /\ executor' = [executor EXCEPT !.alive = @ - 1]
    /\ UNCHANGED <<util, client, done_order, op, num_threads, args, cursor, pc, work_queue, fut, futures,
                   completed, pending, topup, yielded, num_resolved, num_failed,
                   log, exit, exc, error>>

\* After shutdown an idle worker thread that finds the queue empty exits.
WorkerExit ==
    /\ executor.shutdown
    /\ work_queue = <<>>
    /\ executor.alive - Cardinality(Running) > 0
    /\ executor' = [executor EXCEPT !.alive = @ - 1]
    /\ UNCHANGED <<util, client, done_order, op, num_threads, args, cursor, pc, work_queue, fut, futures,
                   completed, pending, topup, yielded, num_resolved, num_failed,
                   log, exit, exc, error>>

\* ------------------------------------------------------------ coordinator
\* Leaving the 'with' block: ThreadPoolExecutor.__exit__ calls
\* shutdown(wait=True); the coordinator then joins the worker threads.
LeaveWith(reason, e) ==
    /\ executor' = [executor EXCEPT !.shutdown = TRUE]
    /\ exit' = reason
    /\ exc' = e
    /\ done_order' = <<>>
    /\ pc' = "join"

\* variant: the executor starts all its threads when it is created
Start_prestarts ==
    /\ pc = "new"
    /\ pc' = "prime"
    /\ num_resolved' = 0
    /\ num_failed' = 0
    /\ executor' = [executor EXCEPT !.created = TRUE, !.alive = num_threads]
    /\ topup' = queue_length
    /\ UNCHANGED <<util, client, done_order, op, num_threads, args, cursor, work_queue, fut, futures,
                   completed, pending, yielded, log, exit, exc, error>>

\* variant: the whole input is submitted in the first chunk
Start_eager ==
    /\ pc = "new"
    /\ pc' = "prime"
    /\ num_resolved' = 0
    /\ num_failed' = 0
    /\ executor' = [executor EXCEPT !.created = TRUE]
    /\ topup' = Len(args)
    /\ UNCHANGED <<util, client, done_order, op, num_threads, args, cursor, work_queue, fut, futures,
                   completed, pending, yielded, log, exit, exc, error>>

\* First next() on the generator: lookup lines 47-52, threadpool_generator
\* lines 36-45; the executor exists, the first islice is about to run.
Start ==
    /\ pc = "new"
    /\ pc' = "prime"
    /\ num_resolved' = 0
    /\ num_failed' = 0
    /\ executor' = [executor EXCEPT !.created = TRUE]
    /\ topup' = queue_length
    /\ UNCHANGED <<util, client, done_order, op, num_threads, args, cursor, work_queue, fut, futures,
                   completed, pending, yielded, log, exit, exc, error>>

\* Lines 47-49, one item of the first chunk.
PrimeSubmit ==
    /\ pc = "prime"
    /\ topup > 0
    /\ PullAndSubmit
    /\ UNCHANGED <<util, client, done_order, op, num_threads, args, pc, completed, pending, yielded,
                   num_resolved, num_failed, log, exit, exc, error>>

\* Lines 47-49: islice is exhausted, the set is bound to 'futures'.
PrimeDone ==
    /\ pc = "prime"
    /\ topup = 0 \/ cursor = Len(args)
    /\ topup' = 0
    /\ pc' = "wait"
    /\ UNCHANGED <<util, client, done_order, op, num_threads, args, cursor, executor, work_queue, fut,
                   futures, completed, pending, yielded, num_resolved, num_failed,
                   log, exit, exc, error>>

\* variant: every in-flight future is handed to the for loop, done or not
Wait_unfinished ==
    /\ pc = "wait"
    /\ futures # {}
    /\ completed' = futures
    /\ futures' = {}
    /\ pending' = futures
    /\ pc' = "yield"
    /\ UNCHANGED <<util, client, done_order, op, num_threads, args, cursor, executor, work_queue, fut, topup,
                   yielded, num_resolved, num_failed, log, exit, exc, error>>

\* variant: wait() reports a single finished future
Wait_one ==
    /\ pc = "wait"
    /\ \E t \in futures \cap Finished :
        /\ completed' = {t}
        /\ futures' = futures \ {t}
        /\ pending' = {t}
    /\ pc' = "yield"
    /\ UNCHANGED <<util, client, done_order, op, num_threads, args, cursor, executor, work_queue, fut, topup,
                   yielded, num_resolved, num_failed, log, exit, exc, error>>

\* Lines 52-56: wait(futures, FIRST_COMPLETED) returns once at least one
\* future is done, with every future that is done and the rest.
Wait ==
    /\ pc = "wait"
    /\ futures \cap Finished # {}
    /\ completed' = futures \cap Finished
    /\ futures' = futures \ Finished
    /\ pending' = futures \cap Finished
    /\ pc' = "yield"
    /\ UNCHANGED <<util, client, done_order, op, num_threads, args, cursor, executor, work_queue, fut, topup,
                   yielded, num_resolved, num_failed, log, exit, exc, error>>

\* variant: the loop ends as soon as the input is used up
Exhausted_early ==
    /\ pc = "wait"
    /\ cursor = Len(args)
    /\ LeaveWith("exhausted", "none")
    /\ UNCHANGED <<util, client, op, num_threads, args, cursor, work_queue, fut, futures,
                   completed, pending, topup, yielded, num_resolved, num_failed,
                   log, error>>

\* Line 52: 'futures' is empty, the loop and the 'with' block end.
Exhausted ==
    /\ pc = "wait"
    /\ futures = {}
    /\ LeaveWith("exhausted", "none")
    /\ UNCHANGED <<util, client, op, num_threads, args, cursor, work_queue, fut, futures,
                   completed, pending, topup, yielded, num_resolved, num_failed,
                   log, error>>

\* variant: the rest of the batch is dropped after one result
YieldResult_dropsBatch ==
    /\ pc = "yield"
    /\ \E t \in pending :
        /\ fut[t].exc = "none"
        /\ pending' = {}
        /\ yielded' = Append(yielded, <<t, fut[t].ret>>)
        /\ IF fut[t].ret[2] = None
           THEN num_failed' = num_failed + 1 /\ UNCHANGED num_resolved
           ELSE num_resolved' = num_resolved + 1 /\ UNCHANGED num_failed
    /\ log' = [log EXCEPT !.debug = IF op = "reverse_lookup" THEN @ + 1 ELSE @]
    /\ done_order' = SelectSeq(done_order, LAMBDA d : d \notin YieldedTasks')
    /\ pc' = "suspended"
    /\ UNCHANGED <<util, client, op, num_threads, args, cursor, executor, work_queue, fut,
                   futures, completed, topup, exit, exc, error>>

\* variant: every pair is counted as resolved
YieldResult_miscount ==
    /\ pc = "yield"
    /\ \E t \in pending :
        /\ fut[t].exc = "none"
        /\ pending' = pending \ {t}
        /\ yielded' = Append(yielded, <<t, fut[t].ret>>)
        /\ num_resolved' = num_resolved + 1
        /\ UNCHANGED num_failed
    /\ log' = [log EXCEPT !.debug = IF op = "reverse_lookup" THEN @ + 1 ELSE @]
    /\ done_order' = SelectSeq(done_order, LAMBDA d : d \notin YieldedTasks')
    /\ pc' = "suspended"
    /\ UNCHANGED <<util, client, op, num_threads, args, cursor, executor, work_queue, fut,
                   futures, completed, topup, exit, exc, error>>

\* Lines 59-60 and lookup lines 54-59 (reverse_lookup 85-91): the next
\* future of the batch has a result; it is yielded to lookup, which counts
\* it and yields the pair to the consumer.
YieldResult ==
    /\ pc = "yield"
    /\ \E t \in pending :
        /\ fut[t].exc = "none"
        /\ pending' = pending \ {t}
        /\ yielded' = Append(yielded, <<t, fut[t].ret>>)
        /\ IF fut[t].ret[2] = None
           THEN num_failed' = num_failed + 1 /\ UNCHANGED num_resolved
           ELSE num_resolved' = num_resolved + 1 /\ UNCHANGED num_failed
    /\ log' = [log EXCEPT !.debug = IF op = "reverse_lookup" THEN @ + 1 ELSE @]
    /\ done_order' = SelectSeq(done_order, LAMBDA d : d \notin YieldedTasks')
    /\ pc' = "suspended"
    /\ UNCHANGED <<util, client, op, num_threads, args, cursor, executor, work_queue, fut,
                   futures, completed, topup, exit, exc, error>>

\* variant: the pool catches the exception and yields (arg, None)
RaiseResult_swallows ==
    /\ pc = "yield"
    /\ \E t \in pending :
        /\ fut[t].exc # "none"
        /\ pending' = pending \ {t}
        /\ yielded' = Append(yielded, <<t, <<fut[t].arg, None>> >>)
    /\ num_failed' = num_failed + 1
    /\ done_order' = SelectSeq(done_order, LAMBDA d : d \notin YieldedTasks')
    /\ pc' = "suspended"
    /\ UNCHANGED <<util, client, op, num_threads, args, cursor, executor, work_queue, fut,
                   futures, completed, topup, num_resolved, log, exit, exc, error>>

\* Line 60: future.result() re-raises the exception of the worker
\* function; it propagates out of the 'with' block.
RaiseResult ==
    /\ pc = "yield"
    /\ \E t \in pending :
        /\ fut[t].exc # "none"
        /\ pending' = pending \ {t}
        /\ LeaveWith("raised", fut[t].exc)
    /\ UNCHANGED <<util, client, op, num_threads, args, cursor, work_queue, fut, futures,
                   completed, topup, yielded, num_resolved, num_failed, log, error>>

\* variant: one item is pulled per batch, whatever the batch's size
EndBatch_one ==
    /\ pc = "yield"
    /\ pending = {}
    /\ topup' = 1
    /\ pc' = "refill"
    /\ UNCHANGED <<util, client, done_order, op, num_threads, args, cursor, executor, work_queue, fut,
                   futures, completed, pending, yielded, num_resolved, num_failed,
                   log, exit, exc, error>>

\* variant: the next chunk is one item short
EndBatch_short ==
    /\ pc = "yield"
    /\ pending = {}
    /\ topup' = Cardinality(completed) - 1
    /\ pc' = "refill"
    /\ UNCHANGED <<util, client, done_order, op, num_threads, args, cursor, executor, work_queue, fut,
                   futures, completed, pending, yielded, num_resolved, num_failed,
                   log, exit, exc, error>>

\* Lines 59-63: the batch is finished; islice(args, len(completed)) starts.
EndBatch ==
    /\ pc = "yield"
    /\ pending = {}
    /\ topup' = Cardinality(completed)
    /\ pc' = "refill"
    /\ UNCHANGED <<util, client, done_order, op, num_threads, args, cursor, executor, work_queue, fut,
                   futures, completed, pending, yielded, num_resolved, num_failed,
                   log, exit, exc, error>>

\* Lines 63-64, one item of the next chunk.
RefillSubmit ==
    /\ pc = "refill"
    /\ topup > 0
    /\ PullAndSubmit
    /\ UNCHANGED <<util, client, done_order, op, num_threads, args, pc, completed, pending, yielded,
                   num_resolved, num_failed, log, exit, exc, error>>

\* Lines 63-64: islice is exhausted, back to the loop test.
RefillDone ==
    /\ pc = "refill"
    /\ topup = 0 \/ cursor = Len(args)
    /\ topup' = 0
    /\ pc' = "wait"
    /\ UNCHANGED <<util, client, done_order, op, num_threads, args, cursor, executor, work_queue, fut,
                   futures, completed, pending, yielded, num_resolved, num_failed,
                   log, exit, exc, error>>

\* variant: the summary is logged when an exception ends the call, too
Join_logsOnError ==
    /\ pc = "join"
    /\ executor.alive = 0
    /\ pc' = "done"
    /\ error' = exc
    /\ log' = [log EXCEPT !.info =
                 IF exit \in {"exhausted", "raised"}
                 THEN Append(@, [resolved |-> num_resolved, failed |-> num_failed])
                 ELSE @]
    /\ UNCHANGED <<util, client, done_order, op, num_threads, args, cursor, executor, work_queue, fut,
                   futures, completed, pending, topup, yielded, num_resolved,
                   num_failed, exit, exc>>

\* variant: the summary is logged on every exit path
Join_alwaysLogs ==
    /\ pc = "join"
    /\ executor.alive = 0
    /\ pc' = "done"
    /\ error' = exc
    /\ log' = [log EXCEPT !.info =
                 Append(@, [resolved |-> num_resolved, failed |-> num_failed])]
    /\ UNCHANGED <<util, client, done_order, op, num_threads, args, cursor, executor, work_queue, fut,
                   futures, completed, pending, topup, yielded, num_resolved,
                   num_failed, exit, exc>>

\* shutdown(wait=True) returns when every worker thread has exited.  After
\* normal exhaustion lookup goes on to lines 61-65 and logs the summary;
\* a close or an exception skips them.
Join ==
    /\ pc = "join"
    /\ executor.alive = 0
    /\ pc' = "done"
    /\ error' = exc
    /\ log' = [log EXCEPT !.info =
                 IF exit = "exhausted"
                 THEN Append(@, [resolved |-> num_resolved, failed |-> num_failed])
                 ELSE @]
    /\ UNCHANGED <<util, client, done_order, op, num_threads, args, cursor, executor, work_queue, fut,
                   futures, completed, pending, topup, yielded, num_resolved,
                   num_failed, exit, exc>>

\* --------------------------------------------------------------- consumer
\* next() on the suspended generator: the for loop of line 59 goes on.
Resume ==
    /\ pc = "suspended"
    /\ pc' = "yield"
    /\ UNCHANGED <<util, client, done_order, op, num_threads, args, cursor, executor, work_queue, fut,
                   futures, completed, pending, topup, yielded, num_resolved,
                   num_failed, log, exit, exc, error>>

\* close() on a generator whose body never started: nothing to undo.
CloseNew ==
    /\ pc = "new"
    /\ pc' = "done"
    /\ exit' = "closed"
    /\ UNCHANGED <<util, client, done_order, op, num_threads, args, cursor, executor, work_queue, fut,
                   futures, completed, pending, topup, yielded, num_resolved,
                   num_failed, log, exc, error>>

\* variant: the generator swallows GeneratorExit and carries on
Close_ignored ==
    /\ pc = "suspended"
    /\ exit' = "closed"
    /\ pc' = "yield"
    /\ UNCHANGED <<util, client, done_order, op, num_threads, args, cursor, executor, work_queue, fut,
                   futures, completed, pending, topup, yielded, num_resolved,
                   num_failed, log, exc, error>>

\* variant: the executor is not used as a context manager
Close_noShutdown ==
    /\ pc = "suspended"
    /\ exit' = "closed"
    /\ pc' = "done"
    /\ UNCHANGED <<util, client, done_order, op, num_threads, args, cursor, executor, work_queue, fut,
                   futures, completed, pending, topup, yielded, num_resolved,
                   num_failed, log, exc, error>>

\* close() on the suspended generator: GeneratorExit is raised at lookup's
\* yield, then at line 60, and leaves the 'with' block.
Close ==
    /\ pc = "suspended"
    /\ LeaveWith("closed", "none")
    /\ UNCHANGED <<util, client, op, num_threads, args, cursor, work_queue, fut, futures,
                   completed, pending, topup, yielded, num_resolved, num_failed,
                   log, error>>

Next ==
    \/ Start
    \/ PrimeSubmit
    \/ PrimeDone
    \/ Wait
    \/ Exhausted
    \/ YieldResult
    \/ RaiseResult
    \/ EndBatch
    \/ RefillSubmit
    \/ RefillDone
    \/ Join
    \/ Resume
    \/ CloseNew
    \/ Close
    \/ WorkerStart
    \/ WorkerFinish
    \/ WorkerExit

Spec == Init /\ [][Next]_vars

\* ------------------------------------------------- a consumer that drains
\* The steps of the consumer, of the coordinator and of the worker threads
\* when the consumer never closes the generator.
Consume == Start \/ Resume
Coordinate ==
    \/ PrimeSubmit
    \/ PrimeDone
    \/ Wait
    \/ Exhausted
    \/ YieldResult
    \/ RaiseResult
    \/ EndBatch
    \/ RefillSubmit
    \/ RefillDone
    \/ Join
Work == WorkerStart \/ WorkerFinish \/ WorkerExit

DrainNext ==
    \/ Start
    \/ Resume
    \/ PrimeSubmit
    \/ PrimeDone
    \/ Wait
    \/ Exhausted
    \/ YieldResult
    \/ RaiseResult
    \/ EndBatch
    \/ RefillSubmit
    \/ RefillDone
    \/ Join
    \/ WorkerStart
    \/ WorkerFinish
    \/ WorkerExit

\* The consumer keeps asking for results, the coordinator's thread and the
\* worker threads are scheduled, and every call of the worker function
\* returns or raises.
LiveInit ==
    /\ Init
    /\ args \in SeqsUpTo(LiveInputs, MaxLen)

LiveSpec ==
    /\ LiveInit
    /\ [][DrainNext]_vars
    /\ WF_vars(Consume)
    /\ WF_vars(Coordinate)
    /\ WF_vars(Work)

\* ------------------------------------------------- inputs that outlast a refill
MaxDeep == 4         \* longest input sequence explored with the two LiveInputs

\* A call on an input long enough for unpulled items to remain after the
\* first refill (more than num_threads * 2 + 1 items when num_threads = 1).
DeepInit ==
    /\ op \in {"lookup", "reverse_lookup"}
    /\ num_threads \in 1..MaxThreads
    /\ args \in SeqsUpTo(LiveInputs, MaxDeep)
    /\ cursor = 0
    /\ pc = "new"
    /\ executor = [created |-> FALSE, shutdown |-> FALSE, alive |-> 0]
    /\ work_queue = <<>>
    /\ fut = <<>>
    /\ futures = {}
    /\ completed = {}
    /\ pending = {}
    /\ topup = 0
    /\ yielded = <<>>
    /\ num_resolved = 0
    /\ num_failed = 0
    /\ log = [debug |-> 0, info |-> <<>>]
    /\ exit = ""
    /\ exc = "none"
    /\ error = "none"
    /\ done_order = <<>>
    /\ util = [fn |-> "none"]
    /\ client = NoClient

DeepSpec == DeepInit /\ [][Next]_vars

\* ------------------------------------------------------ utility functions
\* The utility functions are pure: a behaviour of UtilSpec makes one call
\* on inputs drawn from bounded sets and keeps the call, with its result,
\* in 'util' (a call of lookup follows the construction of its client).

MaxCpus == 2         \* largest os.cpu_count() explored
MaxDepth == 5        \* most components of a path explored
MaxSeed == 3         \* number of random streams explored, minus one

\* An optional int is <<>> (None) or <<n>>.
OptInts(S) == {<<>>} \cup {<<n>> : n \in S}

\* variant: two threads per core
DNSClient_init_x2(num_threads_arg, cpu_count) ==
    IF num_threads_arg # <<>>
    THEN [exc |-> "none", num_threads |-> num_threads_arg[1]]
    ELSE IF cpu_count = <<>>
    THEN [exc |-> "TypeError", num_threads |-> 0]
    ELSE [exc |-> "none", num_threads |-> cpu_count[1] * 2]

\* DNSClient.__init__(num_threads): the attribute num_threads it sets, or
\* the TypeError of None * 4 when os.cpu_count() cannot tell.
DNSClient_init(num_threads_arg, cpu_count) ==
    IF num_threads_arg # <<>>
    THEN [exc |-> "none", num_threads |-> num_threads_arg[1]]
    ELSE IF cpu_count = <<>>
    THEN [exc |-> "TypeError", num_threads |-> 0]
    ELSE [exc |-> "none", num_threads |-> cpu_count[1] * 4]

\* threadpool_generator lines 36-45 for a given num_threads argument: the
\* queue length and the executor's max_workers, or the TypeError of
\* None * 2.
threadpool_start(num_threads_arg) ==
    IF num_threads_arg = <<>>
    THEN [exc |-> "TypeError", queue_length |-> 0, max_workers |-> 0]
    ELSE [exc |-> "none", queue_length |-> num_threads_arg[1] * 2,
          max_workers |-> num_threads_arg[1]]

\* --- pathlib (pure POSIX paths): a path is [abs, parts]
Names == {"a", "verylongname"}
Paths == [abs : BOOLEAN, parts : SeqsUpTo(Names, MaxDepth)]
Dot == [abs |-> FALSE, parts |-> <<>>]

RECURSIVE JoinParts(_)
JoinParts(parts) ==
    IF parts = <<>> THEN ""
    ELSE IF Len(parts) = 1 THEN parts[1]
    ELSE parts[1] \o "/" \o JoinParts(Tail(parts))

\* str(path)
Str(p) ==
    IF p.parts = <<>> THEN (IF p.abs THEN "/" ELSE ".")
    ELSE (IF p.abs THEN "/" ELSE "") \o JoinParts(p.parts)

IsPrefix(a, b) == Len(a) <= Len(b) /\ SubSeq(b, 1, Len(a)) = a

\* path.relative_to(other); ok is FALSE for ValueError
relative_to(p, other) ==
    IF p.abs = other.abs /\ IsPrefix(other.parts, p.parts)
    THEN [ok |-> TRUE,
          path |-> [abs |-> FALSE,
                    parts |-> SubSeq(p.parts, Len(other.parts) + 1, Len(p.parts))]]
    ELSE [ok |-> FALSE, path |-> Dot]

\* the longest common prefix of two sequences
CommonPrefix(a, b) ==
    LET n == CHOOSE k \in 0..Len(a) :
                 /\ k <= Len(b)
                 /\ SubSeq(a, 1, k) = SubSeq(b, 1, k)
                 /\ (k < Len(a) /\ k < Len(b)) => a[k + 1] # b[k + 1]
    IN  SubSeq(a, 1, n)

\* Path(os.path.commonpath((a, b))); ok is FALSE for ValueError (an
\* absolute path mixed with a relative one)
commonpath(a, b) ==
    IF a.abs # b.abs THEN [ok |-> FALSE, path |-> Dot]
    ELSE [ok |-> TRUE, path |-> [abs |-> a.abs, parts |-> CommonPrefix(a.parts, b.parts)]]

\* Path('.') / '..' / ... / '..', n times
updots(n) == [abs |-> FALSE, parts |-> [i \in 1..n |-> ".."]]

\* The file system a call runs in: the process's working directory and the
\* symbolic links (each replaces a leading run of components by another).
ProcCwds == {<<>>, <<"a">>}
Links == {{}, {[from |-> <<"verylongname">>, to |-> <<"a">>]}}
Envs == [cwd : ProcCwds, links : Links]

\* path.resolve(): the path made absolute, symbolic links followed
resolve(p, env) ==
    LET full == IF p.abs THEN p.parts ELSE env.cwd \o p.parts
        hit == {l \in env.links : IsPrefix(l.from, full)}
    IN  IF hit = {} THEN [abs |-> TRUE, parts |-> full]
        ELSE LET l == CHOOSE l \in hit : TRUE
             IN  [abs |-> TRUE,
                  parts |-> l.to \o SubSeq(full, Len(l.from) + 1, Len(full))]

\* variant: the first candidate is taken
ArgMinLen_first(paths) == 1

\* min(paths, key=len): the index of the first shortest string
ArgMinLen(paths) ==
    CHOOSE i \in DOMAIN paths :
        /\ \A j \in DOMAIN paths : Len(Str(paths[i])) <= Len(Str(paths[j]))
        /\ \A j \in 1..(i - 1) : Len(Str(paths[j])) > Len(Str(paths[i]))

\* shortest_path(target, cwd): the path whose string is returned
shortest_path(target, cwd, env) ==
    LET absolute == resolve(target, env)
        down == relative_to(target, cwd)
        depth == relative_to(cwd, target)
        ancestor == commonpath(cwd, target)
        up == relative_to(cwd, ancestor.path)
        below == relative_to(target, ancestor.path)
        paths1 == <<absolute>>
        paths2 == IF down.ok THEN Append(paths1, down.path) ELSE paths1
        paths3 == IF depth.ok
                  THEN Append(paths2, updots(Len(depth.path.parts)))
                  ELSE paths2
        paths4 == IF ancestor.ok
                  THEN Append(paths3, [abs |-> FALSE,
                                       parts |-> updots(Len(up.path.parts)).parts
                                                 \o below.path.parts])
                  ELSE paths3
    IN  IF depth.ok /\ Len(depth.path.parts) > 3
        THEN absolute
        ELSE paths4[ArgMinLen(paths4)]

\* --- create_secret_key
alphabet ==
    <<"a", "b", "c", "d", "e", "f", "g", "h", "i", "j", "k", "l", "m", "n", "o",
      "p", "q", "r", "s", "t", "u", "v", "w", "x", "y", "z", "0", "1", "2", "3",
      "4", "5", "6", "7", "8", "9", "!", "@", "#", "$", "^", "&", "*", "(", "-",
      "_", "=", "+", ")">>

\* the lengths a key is asked for; 50 is the default
DefaultLength == 50
KeyLengths == {0, 10, DefaultLength, 64}

\* random.choice(alphabet), the i-th draw of stream 'seed'
choice(seed, i) == alphabet[((seed + i * (seed + 1)) % Len(alphabet)) + 1]

\* the number of characters the comprehension of line 59 draws
KeyRange == 50

\* create_secret_key(length): the characters joined into the key
create_secret_key(length, seed) == [i \in 1..KeyRange |-> choice(seed, i)]

RECURSIVE Concat(_)
\* ''.join(parts)
Concat(parts) == IF parts = <<>> THEN "" ELSE Head(parts) \o Concat(Tail(parts))

\* --- the calls
poolvars == <<op, num_threads, args, cursor, pc, executor, work_queue, fut,
              futures, completed, pending, topup, yielded, num_resolved,
              num_failed, log, exit, exc, error, done_order>>

UtilInit ==
    /\ Init
    /\ op = "lookup"
    /\ num_threads = 1
    /\ args = <<>>

\* DNSClient(num_threads) under some CPU count
Construct ==
    /\ util.fn = "none"
    /\ \E a \in OptInts(1..MaxThreads), c \in OptInts(1..MaxCpus) :
         util' = [fn |-> "DNSClient", arg |-> a, cpu_count |-> c,
                  exc |-> DNSClient_init(a, c).exc,
                  num_threads |-> DNSClient_init(a, c).num_threads]
    /\ UNCHANGED <<poolvars, client>>

\* client.lookup(...) or client.reverse_lookup(...) on the client just
\* constructed, under a CPU count that may have changed: lines 50-52 and
\* 82-83 pass self.num_threads to threadpool_generator.
CallLookup ==
    /\ util.fn = "DNSClient"
    /\ util.exc = "none"
    /\ \E m \in {"lookup", "reverse_lookup"}, c \in OptInts(1..MaxCpus) :
         util' = [fn |-> m, arg |-> util.arg, cpu_count |-> util.cpu_count,
                  cpu_now |-> c, self_num_threads |-> util.num_threads,
                  pool |-> threadpool_start(<<util.num_threads>>)]
    /\ UNCHANGED <<poolvars, client>>

\* threadpool_generator(num_threads, function, args) called directly and
\* advanced once
CallPool ==
    /\ util.fn = "none"
    /\ \E a \in OptInts(1..MaxThreads), c \in OptInts(1..MaxCpus) :
         util' = [fn |-> "threadpool_generator", arg |-> a, cpu_count |-> c,
                  pool |-> threadpool_start(a)]
    /\ UNCHANGED <<poolvars, client>>

\* shortest_path(target, cwd)
CallShortestPath ==
    /\ util.fn = "none"
    /\ \E target \in Paths, cwd \in Paths, env \in Envs :
         util' = [fn |-> "shortest_path", target |-> target, cwd |-> cwd,
                  env |-> env,
                  path |-> shortest_path(target, cwd, env),
                  out |-> Str(shortest_path(target, cwd, env))]
    /\ UNCHANGED <<poolvars, client>>

\* create_secret_key(length)
CallCreateSecretKey ==
    /\ util.fn = "none"
    /\ \E length \in KeyLengths, seed \in 0..MaxSeed :
         util' = [fn |-> "create_secret_key", length |-> length, seed |-> seed,
                  parts |-> create_secret_key(length, seed),
                  out |-> Concat(create_secret_key(length, seed))]
    /\ UNCHANGED <<poolvars, client>>

UtilNext ==
    \/ Construct
    \/ CallLookup
    \/ CallPool
    \/ CallShortestPath
    \/ CallCreateSecretKey

UtilSpec == UtilInit /\ [][UtilNext]_vars

\* --------------------------------------------- several calls on one client
\* A behaviour of ClientSpec builds one DNSClient and makes two calls of
\* lookup / reverse_lookup on it, whose generators the consumer advances in
\* any interleaving.  Each call is a generator frame of its own: its
\* locals (lines 48-49 and 80-81) live in its record.  A step of a call is
\* one next() on its generator, i.e. everything the pool above does until
\* the next result, the end of the sequence or an exception.

MaxCallLen == 2      \* longest input of a call explored
ClientInputs == {"localhost", "unknown.invalid", "a..b"}

\* DNSClient(num_threads)
NewClient ==
    /\ client = NoClient
    /\ \E n \in 1..MaxThreads :
         client' = [num_threads |-> n, calls |-> <<>>, info |-> <<>>]
    /\ UNCHANGED <<poolvars, util>>

\* client.lookup(args) / client.reverse_lookup(args): a new generator; its
\* body has not started.
NewCall ==
    /\ client.num_threads > 0
    /\ Len(client.calls) < 2
    /\ \E m \in {"lookup", "reverse_lookup"}, a \in SeqsUpTo(ClientInputs, MaxCallLen) :
         client' = [client EXCEPT !.calls =
                      Append(@, [op |-> m, args |-> a, st |-> "new", got |-> {},
                                 num_resolved |-> 0, num_failed |-> 0,
                                 error |-> "none"])]
    /\ UNCHANGED <<poolvars, util>>

\* the items of call c whose result next() may deliver now: not delivered
\* yet, and pulled (at most num_threads * 2 items beyond those delivered)
Deliverable(c) ==
    {j \in DOMAIN c.args :
        j \notin c.got /\ j <= Cardinality(c.got) + client.num_threads * 2}

\* call c after the result of item j was counted and yielded
Counted(c, j) ==
    IF function(c.op, c.args[j]).ret[2] = None
    THEN [c EXCEPT !.st = "active", !.got = @ \cup {j}, !.num_failed = @ + 1]
    ELSE [c EXCEPT !.st = "active", !.got = @ \cup {j}, !.num_resolved = @ + 1]

\* variant: the counters are attributes of the client, shared by its calls
NextOf_shared(i) ==
    LET c == client.calls[i] IN
    /\ c.st \in {"new", "active"}
    /\ IF c.got = DOMAIN c.args
       THEN client' = [client EXCEPT
                         !.calls[i].st = "done",
                         !.info = Append(@, [call |-> i, resolved |-> c.num_resolved,
                                             failed |-> c.num_failed])]
       ELSE \E j \in Deliverable(c) :
              IF function(c.op, c.args[j]).exc # "none"
              THEN client' = [client EXCEPT !.calls[i].st = "done",
                                            !.calls[i].error = function(c.op, c.args[j]).exc]
              ELSE client' = [client EXCEPT !.calls =
                                [k \in DOMAIN @ |->
                                   IF k = i THEN Counted(c, j)
                                   ELSE IF function(c.op, c.args[j]).ret[2] = None
                                   THEN [@[k] EXCEPT !.num_failed = @ + 1]
                                   ELSE [@[k] EXCEPT !.num_resolved = @ + 1]]]
    /\ UNCHANGED <<poolvars, util>>

\* next() on the generator of call i: the next pair (lines 54-59 / 85-91),
\* or the summary and the end of the sequence (lines 61-65 / 93-97), or the
\* exception of a worker.
NextOf(i) ==
    LET c == client.calls[i] IN
    /\ c.st \in {"new", "active"}
    /\ IF c.got = DOMAIN c.args
       THEN client' = [client EXCEPT
                         !.calls[i].st = "done",
                         !.info = Append(@, [call |-> i, resolved |-> c.num_resolved,
                                             failed |-> c.num_failed])]
       ELSE \E j \in Deliverable(c) :
              IF function(c.op, c.args[j]).exc # "none"
              THEN client' = [client EXCEPT !.calls[i].st = "done",
                                            !.calls[i].error = function(c.op, c.args[j]).exc]
              ELSE client' = [client EXCEPT !.calls[i] = Counted(c, j)]
    /\ UNCHANGED <<poolvars, util>>

\* close() on the generator of call i: no summary
CloseOf(i) ==
    /\ client.calls[i].st \in {"new", "active"}
    /\ client' = [client EXCEPT !.calls[i].st = "done"]
    /\ UNCHANGED <<poolvars, util>>

ClientNext ==
    \/ NewClient
    \/ NewCall
    \/ \E i \in DOMAIN client.calls : NextOf(i)
    \/ \E i \in DOMAIN client.calls : CloseOf(i)

ClientSpec == UtilInit /\ [][ClientNext]_vars

TypeOK ==
    /\ pc \in {"new", "prime", "wait", "yield", "suspended", "refill", "join", "done"}
    /\ cursor \in 0..Len(args)
    /\ executor.alive \in 0..num_threads
    /\ futures \subseteq Tasks
    /\ completed \subseteq Tasks
    /\ pending \subseteq completed

\* ------------------------------------------------------------ properties
Range(s) == {s[i] : i \in DOMAIN s}
CountIn(s, x) == Cardinality({i \in DOMAIN s : s[i] = x})
\* s1 and s2 hold the same elements the same number of times
SameBag(s1, s2) == \A x \in Range(s1) \cup Range(s2) : CountIn(s1, x) = CountIn(s2, x)

\* the pairs the consumer received, in order
YieldedPairs == [j \in DOMAIN yielded |-> yielded[j][2]]
\* the worker function applied to the inputs one after the other
Sequential == [i \in DOMAIN args |-> function(op, args[i]).ret]
\* no input makes the worker function raise
NeverRaises == \A i \in DOMAIN args : function(op, args[i]).exc = "none"
\* the consumer asked for results until the sequence ended
Drained == pc = "done" /\ exit = "exhausted"

\* C1: with a worker that never raises and a consumer that drains the
\* sequence, every input item got exactly one task, the worker ran exactly
\* once per task, and each task's result was yielded exactly once, so N
\* results are yielded for N inputs (equal items included).
C1_ExactlyOnce ==
    (Drained /\ NeverRaises) =>
        /\ Len(fut) = Len(args)
        /\ \A t \in Tasks : fut[t].runs = 1
        /\ Len(yielded) = Len(args)
        /\ \A t \in Tasks : CountIn([j \in DOMAIN yielded |-> yielded[j][1]], t) = 1
        /\ SameBag([t \in Tasks |-> fut[t].arg], args)

C1_Witness ==
    /\ Drained
    /\ Len(args) >= 3
    /\ args[1] = args[2]
    /\ num_threads = 1
    /\ Len(yielded) = Len(args)

\* C2: in every state the number of tasks submitted to the executor whose
\* result has not been yielded lies between 0 and num_threads * 2.
C2_OutstandingBounded ==
    /\ Cardinality(Outstanding) >= 0
    /\ Cardinality(Outstanding) <= num_threads * 2

C2_Witness ==
    /\ pc = "wait"
    /\ Len(yielded) >= 1
    /\ cursor = Len(yielded) + num_threads * 2
    /\ Cardinality(Outstanding) = num_threads * 2

\* C3: once the sequence is drained, the results yielded are, as a
\* multiset, the results of applying the worker function to the inputs one
\* by one, whatever the order in which tasks completed.
C3_SameMultiset ==
    Drained => SameBag(YieldedPairs, Sequential)

C3_Witness ==
    /\ Drained
    /\ Len(yielded) >= 2
    /\ yielded[1][1] # 1
    /\ YieldedPairs # Sequential

\* C4: once the consumer has closed the sequence, no step pulls an item
\* from the input or submits a task.
C4_NoSubmitAfterClose ==
    [][exit = "closed" => (cursor' = cursor /\ Len(fut') = Len(fut)
                            /\ exit' = "closed")]_vars

C4_Witness ==
    /\ exit = "closed"
    /\ pc = "done"
    /\ Len(yielded) >= 1
    /\ cursor < Len(args)

\* C5: when the generator has finished - by exhaustion, by close() after
\* any number of results, or by an exception of a worker - the executor it
\* created is shut down, its queue is empty, no task is running and no
\* worker thread is alive.
C5_PoolShutDownOnExit ==
    (pc = "done" /\ executor.created) =>
        /\ executor.shutdown
        /\ executor.alive = 0
        /\ Running = {}
        /\ work_queue = <<>>

C5_Witness ==
    /\ pc = "done"
    /\ exit = "closed"
    /\ Len(yielded) = 1
    /\ Len(fut) >= 2
    /\ executor.shutdown
    /\ executor.alive = 0

\* C6: lookup never raises because a resolution failed: no exception
\* propagates, and once drained every hostname whose resolution fails has
\* its pair (hostname, None) among the results.
C6_LookupNeverRaises ==
    op = "lookup" =>
        /\ exc = "none"
        /\ error = "none"
        /\ Drained =>
             \A i \in DOMAIN args :
                 socket_gethostbyname(args[i]).exc # "none"
                     => <<args[i], None>> \in Range(YieldedPairs)

\* C7: reverse_lookup never raises because a resolution failed: no
\* exception propagates, and once drained every address has its pair among
\* the results, (address, None) if the resolution fails and (address,
\* fully qualified name) if it succeeds.
C7_ReverseLookupNeverRaises ==
    op = "reverse_lookup" =>
        /\ exc = "none"
        /\ error = "none"
        /\ Drained =>
             \A i \in DOMAIN args :
                 LET r == socket_gethostbyaddr(args[i]) IN
                 IF r.exc # "none"
                 THEN <<args[i], None>> \in Range(YieldedPairs)
                 ELSE <<args[i], socket_getfqdn(r.value)>> \in Range(YieldedPairs)

\* the tasks of the current batch that the for loop of line 59 has reached
Reached == completed \ pending

\* C8: an exception of the worker function is neither caught nor retried:
\* the task ran once, its result is never yielded as a value, the
\* exception leaves the generator when the for loop reaches that task and
\* is the one delivered to the consumer, and nothing is yielded afterwards.
C8_Propagates ==
    /\ [](/\ \A t \in YieldedTasks : fut[t].exc = "none"
          /\ \A t \in Finished : fut[t].exc # "none" => fut[t].runs = 1
          /\ (\E t \in Reached : fut[t].exc # "none") => exit = "raised"
          /\ exit = "raised" =>
                 \E t \in Reached \ YieldedTasks : fut[t].exc = exc /\ exc # "none"
          /\ (pc = "done" /\ exit = "raised") => error = exc
          /\ error # "none" => exit = "raised")
    /\ [][exit = "raised" => (yielded' = yielded /\ exit' = "raised"
                               /\ pc' \in {"join", "done"})]_vars

C8_Witness ==
    /\ pc = "done"
    /\ error # "none"
    /\ Len(yielded) >= 1
    /\ cursor < Len(args)

\* number of pairs received whose second component is / is not None
NumNone == Cardinality({j \in DOMAIN yielded : yielded[j][2][2] = None})
NumNotNone == Cardinality({j \in DOMAIN yielded : yielded[j][2][2] # None})

\* C9: a drained call emits exactly one summary event, after the last
\* result; its counters are the numbers of pairs yielded without and with
\* None, and they add up to the number of inputs.  No call emits more than
\* one summary, and none before the sequence has ended.
C9_OneSummaryWhenDrained ==
    /\ Len(log.info) <= 1
    /\ log.info # <<>> => (pc = "done" /\ Len(yielded) = Len(args))
    /\ Drained =>
         /\ Len(log.info) = 1
         /\ log.info[1].resolved = NumNotNone
         /\ log.info[1].failed = NumNone
         /\ log.info[1].resolved + log.info[1].failed = Len(args)

C9_Witness ==
    /\ Drained
    /\ Len(log.info) = 1
    /\ log.info[1].resolved >= 1
    /\ log.info[1].failed >= 1

\* C10: a call whose sequence the consumer closes before its end, even
\* after all N results, never emits the summary event.
C10_NoSummaryWhenAbandoned ==
    exit = "closed" => log.info = <<>>

C10_Witness ==
    /\ pc = "done"
    /\ exit = "closed"
    /\ Len(args) >= 2
    /\ Len(yielded) = Len(args)
    /\ log.info = <<>>

\* the step yields a result to the consumer
Yields == Len(yielded') = Len(yielded) + 1
\* the task whose result the step yields
YieldedNow == yielded'[Len(yielded')][1]
\* position of task t in the completion order of the unyielded tasks
DonePos(t) == CHOOSE i \in DOMAIN done_order : done_order[i] = t

\* C11: results are yielded in completion order: when a result is yielded,
\* no task that completed earlier with a result is still unyielded.
C11_CompletionOrder ==
    [][Yields =>
         \A i \in DOMAIN done_order :
             (i < DonePos(YieldedNow)) => fut[done_order[i]].exc # "none"]_vars

\* C12: the input is pulled lazily: the number of items pulled never
\* exceeds the number of results yielded plus num_threads * 2, and when the
\* input is longer than num_threads * 2 unpulled input remains at the
\* moment the first result is yielded.
C12_LazyInput ==
    /\ cursor <= Len(yielded) + num_threads * 2
    /\ Len(fut) = cursor
    /\ (Len(args) > num_threads * 2 /\ Len(yielded) = 1 /\ pc = "suspended")
           => cursor < Len(args)

C12_Witness ==
    /\ Len(args) > num_threads * 2
    /\ Len(yielded) = 1
    /\ pc = "suspended"
    /\ cursor = num_threads * 2
    /\ cursor < Len(args)

\* the step is the return of wait()
WaitReturns == pc = "wait" /\ pc' = "yield"

\* C20: every batch returned by wait() is non-empty and holds every
\* outstanding task that is finished at that moment; a task reported in a
\* batch has not been reported before, and no reported task stays in the
\* in-flight set.
C20_Batch ==
    /\ [][WaitReturns =>
            /\ completed' # {}
            /\ completed' = {t \in futures : fut[t].state = "FINISHED"}
            /\ completed' \cap completed = {}
            /\ completed' \cap YieldedTasks = {}
            /\ futures' = futures \ completed']_vars
    /\ [](pc \notin {"new", "prime"} => futures \cap completed = {})
    /\ [](pc \in {"yield", "suspended", "refill"} => completed # {})
    /\ [][completed' \cap futures' = {} /\ (futures \ futures') \subseteq completed']_vars

C20_Witness ==
    /\ pc = "yield"
    /\ Cardinality(completed) >= 2
    /\ Len(yielded) >= 1
    /\ futures # {}

\* C13: with a consumer that keeps asking and a worker whose calls all
\* return, the sequence eventually ends, and it ends only when no submitted
\* task is unyielded and no input item is unpulled.
C13_Terminates ==
    /\ NeverRaises => <>Drained
    /\ [](exit = "exhausted" =>
            /\ futures = {}
            /\ Outstanding = {}
            /\ cursor = Len(args)
            /\ Len(yielded) = Len(args))

C13_Witness ==
    /\ Drained
    /\ NeverRaises
    /\ num_threads = 1
    /\ Len(args) >= 3
    /\ cursor = Len(args)
    /\ futures = {}
    /\ Outstanding = {}

\* C14: for an empty input nothing is yielded, no task is submitted, no
\* worker thread is started, and the sequence ends.
C14_EmptyInput ==
    /\ [](Len(args) = 0 =>
            /\ yielded = <<>>
            /\ fut = <<>>
            /\ cursor = 0
            /\ executor.alive = 0
            /\ error = "none")
    /\ Len(args) = 0 => <>Drained

C14_Witness ==
    /\ Len(args) = 0
    /\ Drained
    /\ executor.created
    /\ executor.shutdown
    /\ executor.alive = 0
    /\ yielded = <<>>
    /\ fut = <<>>

\* the num_threads a client must have, given its argument and the CPU
\* count at construction
Expected(arg, cpu_count) == IF arg = <<>> THEN cpu_count[1] * 4 ELSE arg[1]

\* C15: a client built without num_threads has the CPU count times 4, a
\* given num_threads is kept unchanged, and every lookup or reverse_lookup
\* call hands the pool exactly the value set at construction, whatever the
\* CPU count is by then.
C15_Concurrency ==
    /\ (util.fn = "DNSClient" /\ util.exc = "none")
           => util.num_threads = Expected(util.arg, util.cpu_count)
    /\ util.fn \in {"lookup", "reverse_lookup"} =>
           /\ util.self_num_threads = Expected(util.arg, util.cpu_count)
           /\ util.pool.exc = "none"
           /\ util.pool.max_workers = util.self_num_threads
           /\ util.pool.queue_length = util.self_num_threads * 2

C15_Witness ==
    /\ util.fn = "reverse_lookup"
    /\ util.arg = <<>>
    /\ util.cpu_count = <<2>>
    /\ util.cpu_now = <<1>>
    /\ util.pool.max_workers = 8

\* C16: threadpool_generator run with num_threads None uses the number of
\* cores times four and starts normally.
C16_PoolDefault ==
    (util.fn = "threadpool_generator" /\ util.arg = <<>> /\ util.cpu_count # <<>>) =>
        /\ util.pool.exc = "none"
        /\ util.pool.max_workers = util.cpu_count[1] * 4

\* the '..' steps of the route from cwd up to the common ancestor of cwd
\* and target
UpSteps(target, cwd) == Len(relative_to(cwd, commonpath(cwd, target).path).path.parts)

\* C17: the string returned by shortest_path has at most three '..'
\* components; when the relative route needs more, the absolute path of
\* the target is returned.
C17_UpdotsLimited ==
    util.fn = "shortest_path" =>
        /\ CountIn(util.path.parts, "..") <= 3
        /\ (commonpath(util.cwd, util.target).ok
              /\ UpSteps(util.target, util.cwd) > 3)
               => util.out = Str(resolve(util.target, util.env))

\* target is cwd followed by at least one more component
Below(target, cwd) ==
    /\ relative_to(target, cwd).ok
    /\ Len(target.parts) > Len(cwd.parts)

\* C18 as stated: for a target below cwd the result is the path of target
\* relative to cwd, without './' and without '..'.
C18_Original ==
    (util.fn = "shortest_path" /\ Below(util.target, util.cwd)) =>
        /\ util.out = Str(relative_to(util.target, util.cwd).path)
        /\ util.path.abs = FALSE
        /\ CountIn(util.path.parts, "..") = 0

\* C18 amended: for a target below cwd the result is the path of target
\* relative to cwd, without './' and without '..', unless the string of
\* target.resolve() is not longer than it; then that resolved absolute
\* path is the result.  Without symbolic links the relative path is always
\* the result.
C18_Amended ==
    (util.fn = "shortest_path" /\ Below(util.target, util.cwd)) =>
        LET rel == relative_to(util.target, util.cwd).path
            absolute == resolve(util.target, util.env)
        IN  /\ IF Len(Str(absolute)) <= Len(Str(rel))
               THEN util.out = Str(absolute)
               ELSE /\ util.out = Str(rel)
                    /\ util.path = rel
                    /\ CountIn(util.path.parts, "..") = 0
                    /\ CountIn(util.path.parts, ".") = 0
            /\ util.env.links = {} => util.out = Str(rel)

C18_Witness ==
    /\ util.fn = "shortest_path"
    /\ Below(util.target, util.cwd)
    /\ util.cwd.abs
    /\ Len(util.cwd.parts) = 2
    /\ Len(util.target.parts) = 5
    /\ util.out = Str(relative_to(util.target, util.cwd).path)

\* C19: create_secret_key(length) returns length characters, each from the
\* alphabet.
C19_KeyLength ==
    util.fn = "create_secret_key" =>
        /\ Len(util.out) = util.length
        /\ Len(util.parts) = util.length
        /\ \A i \in DOMAIN util.parts : util.parts[i] \in Range(alphabet)

Min(a, b) == IF a <= b THEN a ELSE b
\* the step ends the priming of the pool / a refill
PrimeEnds == pc = "prime" /\ pc' = "wait"
RefillEnds == pc = "refill" /\ pc' = "wait"

\* C21: priming submits exactly min(N, queue_length) tasks before the first
\* wait; a refill after a batch of k pulls min(k, remaining) items and
\* submits one task per item; so at the wait step the in-flight set holds
\* queue_length tasks whenever unpulled input remains (and, in general, as
\* many as there are inputs not yet yielded, up to queue_length).
C21_Refill ==
    /\ [][PrimeEnds =>
            /\ cursor = Min(Len(args), queue_length)
            /\ Len(fut) = cursor
            /\ Cardinality(futures) = cursor]_vars
    /\ [][RefillEnds =>
            LET k == Cardinality(completed)
                pulled == k - topup
                remaining == Len(args) - (cursor - pulled)
            IN  /\ pulled = Min(k, remaining)
                /\ Cardinality({t \in futures : t > cursor - pulled}) = pulled
                /\ Len(fut) = cursor]_vars
    /\ []((pc = "wait" /\ cursor < Len(args)) => Cardinality(futures) = queue_length)
    /\ [](pc = "wait" =>
            /\ Cardinality(futures) = Min(queue_length, Len(args) - Len(yielded))
            /\ cursor = Len(yielded) + Cardinality(futures))

C21_Witness ==
    /\ pc = "wait"
    /\ Len(yielded) >= 1
    /\ cursor < Len(args)
    /\ cursor > queue_length
    /\ Cardinality(futures) = queue_length

\* the consumer's thread is executing the body of the generator
InBody == pc \in {"prime", "wait", "yield", "refill", "join"}
\* the coordinator cannot take its next step until a worker thread has
\* taken one
Blocked == InBody /\ ~ENABLED Coordinate

\* C22 as stated: the coordinator blocks at no step other than the wait
\* for a completion; it reads the result only of a finished task.
C22_Original ==
    /\ Blocked => pc = "wait"
    /\ pending \subseteq Finished

\* C22 amended: the coordinator blocks only at the wait for a completion
\* and, on its way out of the pool, in the shutdown that joins the worker
\* threads; it reads the result only of a finished task and never blocks
\* while priming, yielding or refilling.
C22_Amended ==
    /\ Blocked => pc \in {"wait", "join"}
    /\ (Blocked /\ pc = "wait") => (futures # {} /\ futures \cap Finished = {})
    /\ (Blocked /\ pc = "join") => (executor.shutdown /\ executor.alive > 0)
    /\ pc \in {"prime", "yield", "refill"} => ~Blocked
    /\ pending \subseteq Finished

C22_Witness ==
    /\ Blocked
    /\ pc = "join"
    /\ exit = "closed"
    /\ Running # {}
    /\ work_queue # <<>>

\* the tasks whose record the step changes
Touched == {t \in Tasks : fut'[t] # fut[t]}

\* C23: every step of a worker thread leaves the cursor over the input,
\* the input and the in-flight set unchanged, as well as the coordinator's
\* place and what it has yielded; it changes one task only, never the
\* task's input value, and a finishing worker stores the one result of the
\* worker function for that input.
C23_WorkerFrame ==
    [][Work =>
         /\ cursor' = cursor
         /\ futures' = futures
         /\ args' = args
         /\ <<pc, completed, pending, topup, yielded>>' = <<pc, completed, pending, topup, yielded>>
         /\ Len(fut') = Len(fut)
         /\ Cardinality(Touched) <= 1
         /\ \A t \in Touched :
                /\ fut'[t].arg = fut[t].arg
                /\ fut[t].state # "FINISHED"
                /\ fut'[t].state = "FINISHED" =>
                       /\ fut'[t].ret = function(op, fut[t].arg).ret
                       /\ fut'[t].exc = function(op, fut[t].arg).exc]_vars

C23_Witness ==
    /\ pc = "refill"
    /\ topup > 0
    /\ cursor < Len(args)
    /\ futures \cap Finished # {}

\* the step submits a task
Submits == Len(fut') # Len(fut)

\* C24: tasks are submitted in the iteration order of the input: the i-th
\* task submitted is for the i-th input item; every submission, in priming
\* or in a refill, adds one task, for the next item of the input, behind
\* the tasks already submitted and at the tail of the executor's queue.
C24_SubmissionOrder ==
    /\ [](\A t \in Tasks : fut[t].arg = args[t])
    /\ [][Submits =>
            /\ pc \in {"prime", "refill"}
            /\ Len(fut') = Len(fut) + 1
            /\ cursor' = cursor + 1
            /\ fut'[Len(fut')].arg = args[cursor']
            /\ SubSeq(fut', 1, Len(fut)) = fut
            /\ work_queue' = Append(work_queue, Len(fut'))]_vars

C24_Witness ==
    /\ pc = "wait"
    /\ Len(yielded) >= 1
    /\ cursor = 3
    /\ queue_length = 2
    /\ args[1] # args[2]
    /\ args[2] # args[3]
    /\ args[1] # args[3]
    /\ fut[3].arg = args[3]

\* worker threads that are alive and run no task
IdleThreads == executor.alive - Cardinality(Running)

\* C25: while unpulled input remains and the pool is in service, no worker
\* thread is idle with the executor's queue empty.
C25_NeverStarved ==
    (cursor < Len(args) /\ executor.created /\ ~executor.shutdown)
        => ~(IdleThreads > 0 /\ work_queue = <<>>)

\* the results call c has delivered with / without a name or address
GotNone(c) == Cardinality({j \in c.got : function(c.op, c.args[j]).ret[2] = None})
GotNotNone(c) == Cardinality({j \in c.got : function(c.op, c.args[j]).ret[2] # None})
\* the calls whose record the step changes
ChangedCalls == {k \in DOMAIN client.calls : client'.calls[k] # client.calls[k]}

\* C26: no step of a call changes the client's num_threads or the record
\* of another call on the same client; the counters of a call always equal
\* the numbers of non-None and None results that call itself delivered, and
\* every summary reports the counts of its own call, however the
\* consumption of the two calls is interleaved.
C26_Stateless ==
    /\ [][client.num_threads > 0 =>
            /\ client'.num_threads = client.num_threads
            /\ Cardinality(ChangedCalls) <= 1]_vars
    /\ [](\A k \in DOMAIN client.calls :
            /\ client.calls[k].num_resolved = GotNotNone(client.calls[k])
            /\ client.calls[k].num_failed = GotNone(client.calls[k]))
    /\ [](\A e \in DOMAIN client.info :
            LET c == client.calls[client.info[e].call] IN
            /\ client.info[e].resolved = GotNotNone(c)
            /\ client.info[e].failed = GotNone(c)
            /\ client.info[e].resolved + client.info[e].failed = Len(c.args))

C26_Witness ==
    /\ Len(client.calls) = 2
    /\ Len(client.info) = 1
    /\ client.info[1].call = 1
    /\ client.info[1].resolved = 1
    /\ client.info[1].failed = 1
    /\ client.calls[2].st = "active"
    /\ Cardinality(client.calls[2].got) = 1
    /\ Len(client.calls[2].args) = 2
    /\ client.calls[2].num_resolved = 0
    /\ client.calls[2].num_failed = 1

\* C27: for lookup and for reverse_lookup alike, on inputs whose lookups
\* all return, the debug events logged are exactly one per completed
\* lookup, resolved or failed.
C27_OneDebugPerLookup ==
    NeverRaises => log.debug = Cardinality(Finished)

\* the step completes the close of the sequence
CloseCompletes == exit = "closed" /\ pc = "join" /\ pc' = "done"

\* C28: tasks submitted before the consumer closed the sequence are not
\* cancelled: the close completes only when no task is queued or running,
\* every submitted task has then run once and finished, and the results of
\* the unyielded ones, at most num_threads * 2, are never yielded.
C28_CloseRunsSubmitted ==
    /\ [][CloseCompletes => (Running = {} /\ work_queue = <<>>)]_vars
    /\ []((pc = "done" /\ exit = "closed") =>
            \A t \in Tasks : fut[t].state = "FINISHED" /\ fut[t].runs = 1)
    /\ [](exit = "closed" => Cardinality(Outstanding) <= num_threads * 2)
    /\ [][exit = "closed" =>
            /\ yielded' = yielded
            /\ Outstanding' = Outstanding
            /\ \A t \in Tasks : fut'[t].runs >= fut[t].runs]_vars

C28_Witness ==
    /\ pc = "done"
    /\ exit = "closed"
    /\ num_threads = 2
    /\ Len(yielded) = 1
    /\ Cardinality(Outstanding) = 2
    /\ \A t \in Outstanding : fut[t].state = "FINISHED" /\ fut[t].exc = "none"

\* the tasks waiting in the executor's queue
Queued == {work_queue[i] : i \in DOMAIN work_queue}
\* finished, result not yielded
Unyielded == Finished \ YieldedTasks

\* C29: at most num_threads calls of the worker function run at the same
\* time; every other outstanding task is queued and unstarted, or finished
\* and not yielded, and there are at most num_threads * 2 outstanding
\* tasks in all.
C29_AtMostNumThreads ==
    /\ Cardinality(Running) <= num_threads
    /\ Cardinality(Running) <= executor.alive
    /\ executor.alive <= num_threads
    /\ Outstanding = Running \cup Queued \cup Unyielded
    /\ Running \cap Queued = {}
    /\ Unyielded \cap Queued = {}
    /\ \A t \in Queued : fut[t].state = "PENDING" /\ fut[t].runs = 0
    /\ Cardinality(Running) + Cardinality(Queued) + Cardinality(Unyielded)
           <= num_threads * 2

C29_Witness ==
    /\ num_threads = 2
    /\ Cardinality(Running) = 2
    /\ Cardinality(Queued) = 1
    /\ Cardinality(Unyielded) = 1
    /\ cursor = 4

\* results of the batch in which the exception was met that the for loop
\* had not reached
LostResults == {t \in pending : fut[t].state = "FINISHED" /\ fut[t].exc = "none"}

\* C30: a call that a worker's exception ends never emits the summary
\* event, and the results of the same batch that were finished but not
\* yet yielded when the exception was met are never delivered: nothing is
\* yielded after the exception.
C30_NoSummaryOnError ==
    /\ []((exit = "raised" \/ error # "none") => log.info = <<>>)
    /\ [](exit = "raised" => LostResults \cap YieldedTasks = {})
    /\ [][exit = "raised" =>
            /\ yielded' = yielded
            /\ pending' = pending
            /\ log'.info = <<>>]_vars

C30_Witness ==
    /\ pc = "done"
    /\ exit = "raised"
    /\ error # "none"
    /\ LostResults # {}
    /\ log.info = <<>>

====
